---- MODULE Spec2Model ----
(***************************************************************************)
(* The kanban task store of main.go: an in-memory map of tasks guarded by  *)
(* one mutex, rewritten to a JSON file on every mutation, read back by     *)
(* LoadFromFile at startup, and used by HTTP handler goroutines.           *)
(*                                                                         *)
(* A Go string is a sequence of characters.  Two characters matter to the  *)
(* JSON codec besides plain ASCII: "0xFF", a byte that is not valid UTF-8, *)
(* and "U+FFFD", the Unicode replacement character.  A *Task is modelled   *)
(* by the id of the task it points to.                                     *)
(***************************************************************************)
EXTENDS Integers, Sequences, FiniteSets, TLC

\* ------------------------------------------------------------------ bounds
MaxTasks == 2   \* AddTask is called while fewer than MaxTasks ids are taken
MaxFail  == 1   \* I/O calls that fail in one run of the process

\* Goroutine 0 is main; two goroutines serve requests.
G     == {1, 2}
Procs == {0} \cup G

\* ------------------------------------------------------------- Go strings
Todo  == <<"t", "o", "d", "o">>
Doing == <<"d", "o", "i", "n", "g">>
Done  == <<"d", "o", "n", "e">>
Canonical == {Todo, Doing, Done}

\* Inputs of the requests.
Titles       == {<<"a">>}
Descriptions == {<< >>}
Statuses     == Canonical \cup {<<"0xFF">>}

\* ---------------------------------------------------------------- helpers
Range(f) == {f[x] : x \in DOMAIN f}

EmptyMap == << >>

MapPut(m, k, v) == [x \in DOMAIN m \cup {k} |-> IF x = k THEN v ELSE m[x]]

Perms(S) == {f \in [1..Cardinality(S) -> S] : \A i, j \in DOMAIN f : f[i] = f[j] => i = j}

\* ------------------------------------------------------- encoding/json
\* json.Encoder writes a string character by character: '<' (like '>' and
\* '&') as the six-character escape for U+003C, a byte that is not valid
\* UTF-8 as the six-character escape for U+FFFD, any other character as
\* itself.
JSONEncodeChar(c) ==
    CASE c = "<"    -> "\\u003c"
      [] c = "0xFF" -> "\\ufffd"
      [] OTHER      -> c

JSONEncodeString(s) == [i \in DOMAIN s |-> JSONEncodeChar(s[i])]

\* json.Decoder reads the escapes back as the characters they name.
JSONDecodeChar(t) ==
    CASE t = "\\u003c" -> "<"
      [] t = "\\ufffd" -> "U+FFFD"
      [] t = "0xFF"    -> "U+FFFD"
      [] OTHER         -> t

JSONDecodeString(j) == [i \in DOMAIN j |-> JSONDecodeChar(j[i])]

JSONEncodeTask(t) ==
    [ID          |-> t.ID,
     Title       |-> JSONEncodeString(t.Title),
     Description |-> JSONEncodeString(t.Description),
     Status      |-> JSONEncodeString(t.Status)]

JSONDecodeTask(j) ==
    [ID          |-> j.ID,
     Title       |-> JSONDecodeString(j.Title),
     Description |-> JSONDecodeString(j.Description),
     Status      |-> JSONDecodeString(j.Status)]

\* --------------------------------------------------------------- the file
\* state "absent": no file; "empty": a file of length 0 (os.Create truncated
\* it and nothing was written); "json": a PersistentData document.  A nil
\* task list is written as null, which reads back as a nil list.
NoFile    == [state |-> "absent", tasks |-> << >>, null |-> TRUE, next_id |-> 0]
Truncated == [state |-> "empty",  tasks |-> << >>, null |-> TRUE, next_id |-> 0]

\* PersistentData as encoded by saveToFile, the task list in the order `order`
\* of the map iteration (lines 109-117, 135-137).
PersistentData(m, next, order) ==
    [state   |-> "json",
     tasks   |-> [i \in DOMAIN order |-> JSONEncodeTask(m[order[i]])],
     null    |-> DOMAIN order = {},
     next_id |-> next]

\* The map LoadFromFile builds from the decoded list (lines 162-165): a later
\* entry with the same ID replaces an earlier one.
TasksOfList(list) ==
    LET ids == {list[i].ID : i \in DOMAIN list}
        last(k) == CHOOSE i \in DOMAIN list :
                      /\ list[i].ID = k
                      /\ \A j \in DOMAIN list : list[j].ID = k => j <= i
    IN  [k \in ids |-> JSONDecodeTask(list[last(k)])]

VARIABLES
    tasks,      \* s.tasks: id -> Task
    nextID,     \* s.nextID
    mu,         \* s.mu: the set of goroutines holding it (at most one)
    file,       \* the content of s.filePath
    pc,         \* where each goroutine is
    call,       \* the store call a goroutine is in, with its arguments
    out,        \* the result of a goroutine's store call, until the caller is done with it
    req,        \* the HTTP handler a goroutine runs: its name, the line it is at, the *Task it holds
    acked,      \* history: at a stop, the tasks whose AddTask had returned, with their status
    returned,   \* history: the ids AddTask returned since startup, in order of return
    startEmpty, \* history: the store was empty with nextID 1 after LoadFromFile
    mutated,    \* history: an AddTask or successful MoveTask returned since startup
    failed,     \* history: the I/O calls that failed since main began to serve
    before      \* history: the store and the file when a MoveTask to the status the task has began

vars == <<tasks, nextID, mu, file, pc, call, out, req,
          acked, returned, startEmpty, mutated, failed, before>>

hist == <<acked, returned, startEmpty, mutated, failed, before>>

NoBefore == [set |-> FALSE, tasks |-> << >>, nextID |-> 0, file |-> [state |-> "absent", tasks |-> << >>, null |-> TRUE, next_id |-> 0]]

NoCall == [op |-> "none", title |-> << >>, description |-> << >>, id |-> 0, status |-> << >>]
NoOut  == [ok |-> FALSE, id |-> 0, list |-> << >>]
\* A handler's frame: the handler, the line it is at, the *Task it holds, the
\* lists it has got from GetTasksByStatus so far; and, as history, the status
\* each task had at the first of these reads and the tasks that had that same
\* status at every read so far.
NoReq  == [handler |-> "none", line |-> 0, task |-> 0,
           data |-> << >>, snap |-> << >>, same |-> {}]

\* The store of lines 42-46, main about to call LoadFromFile (line 183).
FreshProcess ==
    /\ tasks = EmptyMap
    /\ nextID = 1
    /\ mu = {}
    /\ pc = [p \in Procs |-> IF p = 0 THEN "LoadFromFile144" ELSE "idle"]
    /\ call = [p \in Procs |-> NoCall]
    /\ out = [p \in Procs |-> NoOut]
    /\ req = [p \in Procs |-> NoReq]
    /\ returned = << >>
    /\ startEmpty = FALSE
    /\ mutated = FALSE
    /\ failed = 0
    /\ before = NoBefore

Init ==
    /\ FreshProcess
    /\ file = NoFile
    /\ acked = EmptyMap

Serving == pc[0] = "serving"

\* ------------------------------------------------------------------ mutex
\* A goroutine that is idle calls a store method and takes the lock:
\* s.mu.Lock(), lines 50, 67, 75, 89.
Lock(g, c, to) ==
    /\ Serving
    /\ pc[g] = "idle"
    /\ mu = {}
    /\ mu' = {g}
    /\ call' = [call EXCEPT ![g] = c]
    /\ pc' = [pc EXCEPT ![g] = to]
    /\ UNCHANGED <<tasks, nextID, file, out, hist>>

Mutators == {"AddTask", "MoveTask"}

\* The deferred s.mu.Unlock() of AddTask and MoveTask (lines 51, 90) runs
\* when the method returns, before the caller has the result.
Unlock(g) ==
    /\ pc[g] = "unlock"
    /\ call[g].op \in Mutators
    /\ mu' = mu \ {g}
    /\ pc' = [pc EXCEPT ![g] = "return"]
    /\ before' = NoBefore
    /\ UNCHANGED <<req, tasks, nextID, file, call, out, acked, returned, startEmpty, mutated, failed>>

\* The deferred s.mu.Unlock() of GetTask and GetTasksByStatus (lines 68, 76)
\* and their return (lines 70, 84) to a caller that is done with the result.
UnlockReturns(g) ==
    /\ pc[g] = "unlock"
    /\ call[g].op \notin Mutators
    /\ mu' = mu \ {g}
    /\ pc' = [pc EXCEPT ![g] = "idle"]
    /\ call' = [call EXCEPT ![g] = NoCall]
    /\ out' = [out EXCEPT ![g] = NoOut]
    /\ UNCHANGED <<tasks, nextID, file, hist>>

\* The caller keeps nothing of the result.
UnlockReturn(g) == UnlockReturns(g) /\ UNCHANGED req

\* ------------------------------------------------------------ saveToFile
\* Lines 120-132: MkdirAll and os.Create.  A failure returns with the file
\* as it was; os.Create truncates the file.
saveToFile_Create(g, ok) ==
    /\ pc[g] = "saveToFile128"
    /\ IF ok
         THEN /\ file' = Truncated
              /\ pc' = [pc EXCEPT ![g] = "saveToFile137"]
              /\ UNCHANGED failed
         ELSE /\ failed < MaxFail
              /\ failed' = failed + 1
              /\ pc' = [pc EXCEPT ![g] = "unlock"]
              /\ UNCHANGED file
    /\ UNCHANGED <<req, tasks, nextID, mu, call, out, acked, returned, startEmpty, mutated, before>>

\* Lines 135-139: Encode writes the document in one Write; a failure leaves
\* the truncated file.
saveToFile_Encode(g, ok, order) ==
    /\ pc[g] = "saveToFile137"
    /\ IF ok
         THEN /\ file' = PersistentData(tasks, nextID, order)
              /\ UNCHANGED failed
         ELSE /\ failed < MaxFail
              /\ failed' = failed + 1
              /\ UNCHANGED file
    /\ pc' = [pc EXCEPT ![g] = "unlock"]
    /\ UNCHANGED <<req, tasks, nextID, mu, call, out, acked, returned, startEmpty, mutated, before>>

\* --------------------------------------------------------------- AddTask
\* A bug: the Status field of the literal is left out.
NewTask_NoStatus(id, title, description) ==
    [ID |-> id, Title |-> title, Description |-> description, Status |-> << >>]

\* Lines 53-58.
NewTask(id, title, description) ==
    [ID |-> id, Title |-> title, Description |-> description, Status |-> Todo]

\* A bug: the counter is not incremented.
IncrementNextID_Forgotten(n) == n

\* Line 60.
IncrementNextID(n) == n + 1

\* AddTask is called while ids are left.
AddTask_Call(g, title, description) ==
    /\ nextID <= MaxTasks
    /\ Lock(g, [NoCall EXCEPT !.op = "AddTask", !.title = title,
                              !.description = description], "AddTask53")

\* A call that is not made by a handler.
AddTask_Lock(g, title, description) == AddTask_Call(g, title, description) /\ UNCHANGED req

\* Lines 53-60, then the call of saveToFile (line 61).
AddTask_Body(g) ==
    /\ pc[g] = "AddTask53"
    /\ LET task == NewTask(nextID, call[g].title, call[g].description)
       IN  /\ tasks' = MapPut(tasks, task.ID, task)
           /\ out' = [out EXCEPT ![g] = [ok |-> TRUE, id |-> task.ID, list |-> << >>]]
    /\ nextID' = IncrementNextID(nextID)
    /\ call' = [call EXCEPT ![g] = [NoCall EXCEPT !.op = "AddTask"]]
    /\ pc' = [pc EXCEPT ![g] = "saveToFile128"]
    /\ UNCHANGED <<req, mu, file, hist>>

\* --------------------------------------------------------------- GetTask
GetTask_Lock(g, id) ==
    /\ Lock(g, [NoCall EXCEPT !.op = "GetTask", !.id = id], "GetTask69")
    /\ UNCHANGED req

\* Lines 69-70.
Lookup(m, id) == [ok |-> id \in DOMAIN m, id |-> IF id \in DOMAIN m THEN id ELSE 0, list |-> << >>]

\* Lines 69-70.
GetTask_Body(g) ==
    /\ pc[g] = "GetTask69"
    /\ out' = [out EXCEPT ![g] = Lookup(tasks, call[g].id)]
    /\ call' = [call EXCEPT ![g] = [NoCall EXCEPT !.op = "GetTask"]]
    /\ pc' = [pc EXCEPT ![g] = "unlock"]
    /\ UNCHANGED <<req, tasks, nextID, mu, file, hist>>

\* ------------------------------------------------------ GetTasksByStatus
\* Lines 78-84: the tasks with the status, in the order `order` of the map
\* iteration.
\* A bug: the comparison of line 80 negated.
TasksWithStatus_Negated(m, status, order) ==
    SelectSeq(order, LAMBDA k : m[k].Status # status)

TasksWithStatus(m, status, order) ==
    SelectSeq(order, LAMBDA k : m[k].Status = status)

GetTasksByStatus_Call(g, status) ==
    Lock(g, [NoCall EXCEPT !.op = "GetTasksByStatus", !.status = status], "GetTasksByStatus78")

GetTasksByStatus_Lock(g, status) == GetTasksByStatus_Call(g, status) /\ UNCHANGED req

\* Lines 78-84.
GetTasksByStatus_Body(g) ==
    /\ pc[g] = "GetTasksByStatus78"
    /\ \E order \in Perms(DOMAIN tasks) :
          out' = [out EXCEPT ![g] =
                     [ok |-> TRUE, id |-> 0,
                      list |-> TasksWithStatus(tasks, call[g].status, order)]]
    /\ call' = [call EXCEPT ![g] = [NoCall EXCEPT !.op = "GetTasksByStatus"]]
    /\ pc' = [pc EXCEPT ![g] = "unlock"]
    /\ UNCHANGED <<req, tasks, nextID, mu, file, hist>>

\* -------------------------------------------------------------- MoveTask
\* A bug: the status is set on every task.
SetStatus_All(m, id, newStatus) == [k \in DOMAIN m |-> [m[k] EXCEPT !.Status = newStatus]]

\* Line 96.
SetStatus(m, id, newStatus) == [m EXCEPT ![id].Status = newStatus]

MoveTask_Call(g, id, status) ==
    Lock(g, [NoCall EXCEPT !.op = "MoveTask", !.id = id, !.status = status], "MoveTask92")

MoveTask_Lock(g, id, status) == MoveTask_Call(g, id, status) /\ UNCHANGED req

\* A bug: the not-found path saves as the found path does.
MoveTask_NotFound_Saves(g) ==
    /\ pc[g] = "MoveTask92"
    /\ call[g].id \notin DOMAIN tasks
    /\ out' = [out EXCEPT ![g] = NoOut]
    /\ call' = [call EXCEPT ![g] = [NoCall EXCEPT !.op = "MoveTask"]]
    /\ pc' = [pc EXCEPT ![g] = "saveToFile128"]
    /\ UNCHANGED <<req, tasks, nextID, mu, file, hist>>

\* A bug: Unlock is not deferred and the not-found path returns with the lock.
MoveTask_NotFound_KeepsLock(g) ==
    /\ pc[g] = "MoveTask92"
    /\ call[g].id \notin DOMAIN tasks
    /\ out' = [out EXCEPT ![g] = NoOut]
    /\ call' = [call EXCEPT ![g] = [NoCall EXCEPT !.op = "MoveTask"]]
    /\ pc' = [pc EXCEPT ![g] = "return"]
    /\ UNCHANGED <<req, tasks, nextID, mu, file, hist>>

\* Lines 92-95: the id is not in the map.
MoveTask_NotFound(g) ==
    /\ pc[g] = "MoveTask92"
    /\ call[g].id \notin DOMAIN tasks
    /\ out' = [out EXCEPT ![g] = NoOut]
    /\ call' = [call EXCEPT ![g] = [NoCall EXCEPT !.op = "MoveTask"]]
    /\ pc' = [pc EXCEPT ![g] = "unlock"]
    /\ UNCHANGED <<req, tasks, nextID, mu, file, hist>>

\* Lines 92-97: the id is in the map.
MoveTask_Body(g) ==
    /\ pc[g] = "MoveTask92"
    /\ call[g].id \in DOMAIN tasks
    /\ tasks' = SetStatus(tasks, call[g].id, call[g].status)
    /\ out' = [out EXCEPT ![g] = [ok |-> TRUE, id |-> call[g].id, list |-> << >>]]
    /\ call' = [call EXCEPT ![g] = [NoCall EXCEPT !.op = "MoveTask"]]
    /\ pc' = [pc EXCEPT ![g] = "saveToFile128"]
    /\ before' = IF tasks[call[g].id].Status = call[g].status
                    THEN [set |-> TRUE, tasks |-> tasks, nextID |-> nextID, file |-> file]
                    ELSE NoBefore
    /\ UNCHANGED <<req, nextID, mu, file, acked, returned, startEmpty, mutated, failed>>

\* AddTask or MoveTask has returned to its caller (lines 62, 94, 98), which
\* is done with the result.
Returns(g) ==
    /\ pc[g] = "return"
    /\ pc' = [pc EXCEPT ![g] = "idle"]
    /\ returned' = IF call[g].op = "AddTask" THEN Append(returned, out[g].id) ELSE returned
    /\ mutated' = (mutated \/ call[g].op = "AddTask" \/ (call[g].op = "MoveTask" /\ out[g].ok))
    /\ call' = [call EXCEPT ![g] = NoCall]
    /\ out' = [out EXCEPT ![g] = NoOut]
    /\ UNCHANGED <<tasks, nextID, mu, file, acked, startEmpty, failed, before>>

\* The caller keeps nothing of the result.
Return(g) == Returns(g) /\ UNCHANGED req

\* ---------------------------------------------------------- LoadFromFile
\* main calls LoadFromFile (line 183): s.mu.Lock(), line 144.
LoadFromFile_Lock ==
    /\ pc[0] = "LoadFromFile144"
    /\ mu = {}
    /\ mu' = {0}
    /\ pc' = [pc EXCEPT ![0] = "LoadFromFile147"]
    /\ UNCHANGED <<req, tasks, nextID, file, call, out, hist>>

\* A bug: the map and nextID are replaced (lines 162-166) before the error of
\* Decode is looked at, from a PersistentData that was not filled.
LoadResult_AssignsBeforeCheck(f, ok, m, next) ==
    IF f.state = "absent" THEN [err |-> "nil", tasks |-> m, nextID |-> next]
    ELSE IF ~ok \/ f.state = "empty" THEN [err |-> "err", tasks |-> EmptyMap, nextID |-> 0]
    ELSE [err |-> "nil", tasks |-> TasksOfList(f.tasks), nextID |-> f.next_id]

\* A bug: a missing file is reported like any other error of os.Open.
LoadResult_NotExistIsError(f, ok, m, next) ==
    IF f.state \in {"absent", "empty"} \/ ~ok THEN [err |-> "err", tasks |-> m, nextID |-> next]
    ELSE [err |-> "nil", tasks |-> TasksOfList(f.tasks), nextID |-> f.next_id]

\* What lines 147-169 return and leave in the store <<m, next>>: os.Open fails
\* with IsNotExist when there is no file (nil is returned), or with another
\* error when `ok` is false; Decode fails on an empty file; otherwise the map
\* and nextID are replaced.
LoadResult(f, ok, m, next) ==
    IF f.state = "absent" THEN [err |-> "nil", tasks |-> m, nextID |-> next]
    ELSE IF ~ok \/ f.state = "empty" THEN [err |-> "err", tasks |-> m, nextID |-> next]
    ELSE [err |-> "nil", tasks |-> TasksOfList(f.tasks), nextID |-> f.next_id]

\* Lines 147-169 and the deferred Unlock.
LoadFromFile_Body(ok) ==
    /\ pc[0] = "LoadFromFile147"
    /\ IF ok THEN UNCHANGED failed ELSE failed < MaxFail /\ failed' = failed + 1
    /\ LET r == LoadResult(file, ok, tasks, nextID)
       IN  /\ tasks' = r.tasks
           /\ nextID' = r.nextID
           /\ out' = [out EXCEPT ![0] = [ok |-> r.err = "nil", id |-> 0, list |-> << >>]]
           /\ startEmpty' = (r.tasks = EmptyMap /\ r.nextID = 1)
    /\ mu' = mu \ {0}
    /\ pc' = [pc EXCEPT ![0] = "main183"]
    /\ UNCHANGED <<req, file, call, acked, returned, mutated, before>>

\* Lines 183-198: main logs a load error and serves.
main_Serve ==
    /\ pc[0] = "main183"
    /\ pc' = [pc EXCEPT ![0] = "serving"]
    /\ out' = [out EXCEPT ![0] = NoOut]
    /\ acked' = EmptyMap
    /\ failed' = 0
    /\ UNCHANGED <<req, tasks, nextID, mu, file, call, returned, startEmpty, mutated, before>>

\* ------------------------------------------------------------ the process
\* A mutation of task id is in flight: its method has changed the task and
\* has not returned.
InFlight(id) ==
    \E h \in G : /\ call[h].op \in {"AddTask", "MoveTask"}
                 /\ pc[h] \in {"saveToFile128", "saveToFile137", "unlock", "return"}
                 /\ out[h].ok /\ out[h].id = id

AddInFlight(id) ==
    \E h \in G : /\ call[h].op = "AddTask"
                 /\ pc[h] \in {"saveToFile128", "saveToFile137", "unlock", "return"}
                 /\ out[h].id = id

\* The process stops, at any point, and is started again: the memory is that
\* of a fresh process (lines 42-46), the file is what it was.
Crash ==
    /\ Serving
    /\ tasks' = EmptyMap
    /\ nextID' = 1
    /\ mu' = {}
    /\ pc' = [p \in Procs |-> IF p = 0 THEN "LoadFromFile144" ELSE "idle"]
    /\ call' = [p \in Procs |-> NoCall]
    /\ out' = [p \in Procs |-> NoOut]
    /\ returned' = << >>
    /\ startEmpty' = FALSE
    /\ mutated' = FALSE
    /\ before' = NoBefore
    /\ acked' = [id \in {k \in DOMAIN tasks : ~AddInFlight(k)} |->
                    [status |-> tasks[id].Status, exact |-> ~InFlight(id)]]
    /\ req' = [p \in Procs |-> NoReq]
    /\ UNCHANGED <<file, failed>>

Next ==
    \/ \E g \in G, t \in Titles, d \in Descriptions : AddTask_Lock(g, t, d)
    \/ \E g \in G : AddTask_Body(g)
    \/ \E g \in G, id \in 1..MaxTasks : GetTask_Lock(g, id)
    \/ \E g \in G : GetTask_Body(g)
    \/ \E g \in G, s \in Statuses : GetTasksByStatus_Lock(g, s)
    \/ \E g \in G : GetTasksByStatus_Body(g)
    \/ \E g \in G, id \in 1..MaxTasks, s \in Statuses : MoveTask_Lock(g, id, s)
    \/ \E g \in G : MoveTask_NotFound(g)
    \/ \E g \in G : MoveTask_Body(g)
    \/ \E g \in G, ok \in BOOLEAN : saveToFile_Create(g, ok)
    \/ \E g \in G, ok \in BOOLEAN : \E order \in Perms(DOMAIN tasks) : saveToFile_Encode(g, ok, order)
    \/ \E g \in G : Unlock(g)
    \/ \E g \in G : UnlockReturn(g)
    \/ \E g \in G : Return(g)
    \/ LoadFromFile_Lock
    \/ \E ok \in BOOLEAN : LoadFromFile_Body(ok)
    \/ main_Serve
    \/ Crash

Spec == Init /\ [][Next]_vars

\* ---------------------------------------------------------- HTTP handlers
\* Inputs of the requests: the method, the form values title, id and status,
\* the status in the path of /column/.
Methods    == {"POST", "GET"}
FormTitles == {<< >>, <<"a">>}
FormIds    == {<<"1">>, <<"2">>, <<"x">>}

\* strconv.Atoi (line 246) on an unsigned decimal string.
Digits == <<"0", "1", "2", "3", "4", "5", "6", "7", "8", "9">>

RECURSIVE DecimalValue(_)
DecimalValue(str) ==
    IF str = << >> THEN 0
    ELSE 10 * DecimalValue(SubSeq(str, 1, Len(str) - 1))
         + ((CHOOSE i \in DOMAIN Digits : Digits[i] = str[Len(str)]) - 1)

Atoi(str) ==
    IF str # << >> /\ \A i \in DOMAIN str : str[i] \in Range(Digits)
        THEN [err |-> FALSE, n |-> DecimalValue(str)]
        ELSE [err |-> TRUE, n |-> 0]

Frame(h, l, t) == [NoReq EXCEPT !.handler = h, !.line = l, !.task = t]

\* A handler at line `line` calls store.GetTasksByStatus(status) and goes on
\* at line `next` (lines 205, 206, 229, 260-262).
Handler_GetTasksByStatus(g, h, line, status, next) ==
    /\ req[g].handler = h
    /\ req[g].line = line
    /\ GetTasksByStatus_Call(g, status)
    /\ req' = [req EXCEPT ![g].line = next]

\* A handler writes its response and returns: lines 208, 214-215, 222-223,
\* 230-234, 239-240, 248-249, 254-255, 273-274, 278-282.
Handler_Return(g) ==
    /\ req[g].line \in {208, 214, 222, 230, 239, 248, 254, 273, 278}
    /\ pc[g] = "idle"
    /\ req' = [req EXCEPT ![g] = NoReq]
    /\ UNCHANGED <<tasks, nextID, mu, file, pc, call, out, hist>>

\* Lines 203-204: a request for / arrives.
indexHandler_204(g) ==
    /\ req[g] = NoReq
    /\ GetTasksByStatus_Call(g, Todo)
    /\ req' = [req EXCEPT ![g] = Frame("indexHandler", 205, 0)]

indexHandler_205(g) == Handler_GetTasksByStatus(g, "indexHandler", 205, Doing, 206)

\* A bug: DoneTasks is filled with the "doing" tasks.
indexHandler_206_AsksDoing(g) == Handler_GetTasksByStatus(g, "indexHandler", 206, Doing, 208)

indexHandler_206(g) == Handler_GetTasksByStatus(g, "indexHandler", 206, Done, 208)

\* Lines 213-224: the method is not POST, or the title is empty.
addTaskHandler_Reject(g, method, title) ==
    /\ Serving
    /\ req[g] = NoReq
    /\ pc[g] = "idle"
    /\ method # "POST" \/ title = << >>
    /\ req' = [req EXCEPT ![g] =
                  Frame("addTaskHandler", IF method # "POST" THEN 214 ELSE 222, 0)]
    /\ UNCHANGED <<tasks, nextID, mu, file, pc, call, out, hist>>

\* A bug: the check of the title (lines 221-224) is missing.
addTaskHandler_226_NoTitleCheck(g, method, title, description) ==
    /\ req[g] = NoReq
    /\ method = "POST"
    /\ AddTask_Call(g, title, description)
    /\ req' = [req EXCEPT ![g] = Frame("addTaskHandler", 229, 0)]

\* Lines 213-226.
addTaskHandler_226(g, method, title, description) ==
    /\ req[g] = NoReq
    /\ method = "POST"
    /\ title # << >>
    /\ AddTask_Call(g, title, description)
    /\ req' = [req EXCEPT ![g] = Frame("addTaskHandler", 229, 0)]

addTaskHandler_229(g) == Handler_GetTasksByStatus(g, "addTaskHandler", 229, Todo, 230)

\* Lines 238-250: the method is not POST, or the id is not a number.
moveTaskHandler_Reject(g, method, idStr) ==
    /\ Serving
    /\ req[g] = NoReq
    /\ pc[g] = "idle"
    /\ method # "POST" \/ Atoi(idStr).err
    /\ req' = [req EXCEPT ![g] =
                  Frame("moveTaskHandler", IF method # "POST" THEN 239 ELSE 248, 0)]
    /\ UNCHANGED <<tasks, nextID, mu, file, pc, call, out, hist>>

\* Lines 238-252: the status is passed to MoveTask as it came.
moveTaskHandler_252(g, method, idStr, newStatus) ==
    /\ req[g] = NoReq
    /\ method = "POST"
    /\ ~Atoi(idStr).err
    /\ MoveTask_Call(g, Atoi(idStr).n, newStatus)
    /\ req' = [req EXCEPT ![g] = Frame("moveTaskHandler", 253, 0)]

\* Lines 252-256: MoveTask returns task, ok to the handler, which keeps the
\* *Task when ok.
moveTaskHandler_253(g) ==
    /\ req[g].handler = "moveTaskHandler"
    /\ req[g].line = 253
    /\ Returns(g)
    /\ req' = [req EXCEPT ![g] = IF out[g].ok
                                    THEN Frame("moveTaskHandler", 260, out[g].id)
                                    ELSE Frame("moveTaskHandler", 254, 0)]

moveTaskHandler_260(g) == Handler_GetTasksByStatus(g, "moveTaskHandler", 260, Todo, 261)

moveTaskHandler_261(g) == Handler_GetTasksByStatus(g, "moveTaskHandler", 261, Doing, 262)

moveTaskHandler_262(g) == Handler_GetTasksByStatus(g, "moveTaskHandler", 262, Done, 266)

\* Line 266: fmt.Printf reads task.ID, task.Title and task.Status; the handler
\* does not hold the lock.  What is read goes to standard output only.
moveTaskHandler_266(g) ==
    /\ req[g].handler = "moveTaskHandler"
    /\ req[g].line = 266
    /\ pc[g] = "idle"
    /\ req' = [req EXCEPT ![g] = NoReq]
    /\ UNCHANGED <<tasks, nextID, mu, file, pc, call, out, hist>>

\* Lines 271-275: the status of the path is not one of the three.
columnHandler_Reject(g, status) ==
    /\ Serving
    /\ req[g] = NoReq
    /\ pc[g] = "idle"
    /\ status \notin {Todo, Doing, Done}
    /\ req' = [req EXCEPT ![g] = Frame("columnHandler", 273, 0)]
    /\ UNCHANGED <<tasks, nextID, mu, file, pc, call, out, hist>>

\* Lines 271-277.
columnHandler_277(g, status) ==
    /\ req[g] = NoReq
    /\ status \in {Todo, Doing, Done}
    /\ GetTasksByStatus_Call(g, status)
    /\ req' = [req EXCEPT ![g] = Frame("columnHandler", 278, 0)]

\* The server: main loads the file and serves; every store call is made by a
\* handler; no I/O call fails.
HTTPNext ==
    \/ LoadFromFile_Lock
    \/ LoadFromFile_Body(TRUE)
    \/ main_Serve
    \/ \E g \in G : indexHandler_204(g)
    \/ \E g \in G : indexHandler_205(g)
    \/ \E g \in G : indexHandler_206(g)
    \/ \E g \in G, m \in Methods, t \in FormTitles : addTaskHandler_Reject(g, m, t)
    \/ \E g \in G, m \in Methods, t \in FormTitles, d \in Descriptions : addTaskHandler_226(g, m, t, d)
    \/ \E g \in G : addTaskHandler_229(g)
    \/ \E g \in G, m \in Methods, i \in FormIds : moveTaskHandler_Reject(g, m, i)
    \/ \E g \in G, m \in Methods, i \in FormIds, s \in Statuses : moveTaskHandler_252(g, m, i, s)
    \/ \E g \in G : moveTaskHandler_253(g)
    \/ \E g \in G : moveTaskHandler_260(g)
    \/ \E g \in G : moveTaskHandler_261(g)
    \/ \E g \in G : moveTaskHandler_262(g)
    \/ \E g \in G : moveTaskHandler_266(g)
    \/ \E g \in G, s \in Statuses : columnHandler_Reject(g, s)
    \/ \E g \in G, s \in Statuses : columnHandler_277(g, s)
    \/ \E g \in G : Handler_Return(g)
    \/ \E g \in G : AddTask_Body(g)
    \/ \E g \in G : GetTasksByStatus_Body(g)
    \/ \E g \in G : MoveTask_NotFound(g)
    \/ \E g \in G : MoveTask_Body(g)
    \/ \E g \in G : saveToFile_Create(g, TRUE)
    \/ \E g \in G : \E order \in Perms(DOMAIN tasks) : saveToFile_Encode(g, TRUE, order)
    \/ \E g \in G : Unlock(g)
    \/ \E g \in G : UnlockReturn(g)
    \/ \E g \in G : req[g].handler # "moveTaskHandler" /\ Return(g)

SpecHTTP == Init /\ [][HTTPNext]_vars

\* ------------------------------------------------------ what a render shows
\* A handler keeps the list that GetTasksByStatus returned: the fields of
\* PageData (lines 203-207, 259-263), tasks (lines 229, 277).  The history
\* fields are taken while the lock of that call is still held.
Render_UnlockReturn(g) ==
    /\ UnlockReturns(g)
    /\ LET first == req[g].data = << >>
       IN  req' = [req EXCEPT
                      ![g].data = Append(@, out[g].list),
                      ![g].snap = IF first THEN [id \in DOMAIN tasks |-> tasks[id].Status] ELSE @,
                      ![g].same = IF first THEN DOMAIN tasks
                                  ELSE {id \in @ : tasks[id].Status = req[g].snap[id]}]

\* The statuses that the requests for /move-task ask for.
MoveStatuses == {Todo, Doing}

\* The server with requests for /, /add-task and /move-task that pass the
\* checks of their handlers and use statuses of the three; no I/O call fails.
RenderNext ==
    \/ LoadFromFile_Lock
    \/ LoadFromFile_Body(TRUE)
    \/ main_Serve
    \/ \E g \in G : indexHandler_204(g)
    \/ \E g \in G : indexHandler_205(g)
    \/ \E g \in G : indexHandler_206(g)
    \/ \E g \in G, t \in Titles, d \in Descriptions : addTaskHandler_226(g, "POST", t, d)
    \/ \E g \in G : addTaskHandler_229(g)
    \/ \E g \in G, i \in FormIds, s \in MoveStatuses : moveTaskHandler_252(g, "POST", i, s)
    \/ \E g \in G : moveTaskHandler_253(g)
    \/ \E g \in G : moveTaskHandler_260(g)
    \/ \E g \in G : moveTaskHandler_261(g)
    \/ \E g \in G : moveTaskHandler_262(g)
    \/ \E g \in G : moveTaskHandler_266(g)
    \/ \E g \in G : Handler_Return(g)
    \/ \E g \in G : AddTask_Body(g)
    \/ \E g \in G : GetTasksByStatus_Body(g)
    \/ \E g \in G : MoveTask_NotFound(g)
    \/ \E g \in G : MoveTask_Body(g)
    \/ \E g \in G : saveToFile_Create(g, TRUE)
    \/ \E g \in G : \E order \in Perms(DOMAIN tasks) : saveToFile_Encode(g, TRUE, order)
    \/ \E g \in G : Unlock(g)
    \/ \E g \in G : Render_UnlockReturn(g)
    \/ \E g \in G : req[g].handler # "moveTaskHandler" /\ Return(g)

SpecRender == Init /\ [][RenderNext]_vars

\* --------------------------------------------------- the store as data
\* AddTask, MoveTask, saveToFile and LoadFromFile applied by one goroutine,
\* with no I/O error, to stores drawn from the sets below: any set of ids,
\* strings that are empty, need an escape in JSON or are not valid UTF-8, any
\* nextID (a data file may be edited by hand).
DataStrings      == {<< >>, <<"a">>, <<"<">>, <<"0xFF">>}
DataDescriptions == {<< >>, <<"<">>}
DataStatuses     == {Todo, Done, <<"0xFF">>}

DataStores ==
    UNION {{[k \in ids |-> [ID |-> k, Title |-> f[k][1], Description |-> f[k][2], Status |-> f[k][3]]] :
               f \in [ids -> DataStrings \X DataDescriptions \X DataStatuses]} :
           ids \in SUBSET (1..MaxTasks)}

DataInit ==
    /\ tasks \in DataStores
    /\ nextID \in 1..(MaxTasks + 1)
    /\ mu = {}
    /\ file = NoFile
    /\ pc = [p \in Procs |-> IF p = 0 THEN "serving" ELSE "idle"]
    /\ call = [p \in Procs |-> NoCall]
    /\ out = [p \in Procs |-> NoOut]
    /\ req = [p \in Procs |-> NoReq]
    /\ acked = EmptyMap
    /\ returned = << >>
    /\ startEmpty = FALSE
    /\ mutated = FALSE
    /\ failed = 0
    /\ before = NoBefore

\* The process is stopped between two operations and started again.
Restart == (\A g \in G : pc[g] = "idle") /\ Crash

DataNext ==
    \/ \E t \in DataStrings, d \in DataDescriptions : AddTask_Lock(1, t, d)
    \/ AddTask_Body(1)
    \/ \E id \in 1..MaxTasks, s \in DataStatuses : MoveTask_Lock(1, id, s)
    \/ MoveTask_NotFound(1)
    \/ MoveTask_Body(1)
    \/ saveToFile_Create(1, TRUE)
    \/ \E order \in Perms(DOMAIN tasks) : saveToFile_Encode(1, TRUE, order)
    \/ Unlock(1)
    \/ Return(1)
    \/ Restart
    \/ LoadFromFile_Lock
    \/ LoadFromFile_Body(TRUE)
    \/ main_Serve

SpecData == DataInit /\ [][DataNext]_vars

\* ------------------------------------------------- a data file found at startup
\* The process starts on a data file that it did not write itself (the file
\* is JSON that can be viewed and edited): any list of up to MaxTasks tasks
\* with ids of 1..MaxTasks, an id possibly twice, and any next_id of
\* 0..MaxTasks + 1.  Every such file decodes.
FileTasks ==
    {[ID |-> k, Title |-> <<"a">>, Description |-> << >>, Status |-> st] :
        k \in 1..MaxTasks, st \in {Todo, Done}}

EditedFiles ==
    {[state |-> "json", tasks |-> l, null |-> (l = << >>), next_id |-> n] :
        l \in UNION {[1..len -> FileTasks] : len \in 0..MaxTasks},
        n \in 0..(MaxTasks + 1)}

FileInit ==
    /\ FreshProcess
    /\ file \in EditedFiles
    /\ acked = EmptyMap

\* main loads the file and serves; one goroutine adds tasks; no I/O call fails.
FileNext ==
    \/ LoadFromFile_Lock
    \/ LoadFromFile_Body(TRUE)
    \/ main_Serve
    \/ \E t \in DataStrings, d \in Descriptions : AddTask_Lock(1, t, d)
    \/ AddTask_Body(1)
    \/ saveToFile_Create(1, TRUE)
    \/ \E order \in Perms(DOMAIN tasks) : saveToFile_Encode(1, TRUE, order)
    \/ Unlock(1)
    \/ Return(1)
    \/ Restart

SpecFile == FileInit /\ [][FileNext]_vars

\* ------------------------------------------------------------- scheduling
\* The steps of goroutine g that wait for nothing: the Go scheduler runs a
\* runnable goroutine, and an I/O call returns.
Runs(g) ==
    \/ AddTask_Body(g)
    \/ GetTasksByStatus_Body(g)
    \/ MoveTask_NotFound(g)
    \/ MoveTask_Body(g)
    \/ \E ok \in BOOLEAN : saveToFile_Create(g, ok)
    \/ \E ok \in BOOLEAN : \E order \in Perms(DOMAIN tasks) : saveToFile_Encode(g, ok, order)
    \/ Unlock(g)
    \/ UnlockReturn(g)
    \/ req[g].handler # "moveTaskHandler" /\ Return(g)
    \/ moveTaskHandler_253(g)
    \/ moveTaskHandler_266(g)
    \/ Handler_Return(g)

\* The steps in which a handler of goroutine g that has begun takes the lock
\* for its next store call: s.mu.Lock() of lines 75.
Acquires(g) ==
    \/ indexHandler_205(g)
    \/ indexHandler_206(g)
    \/ addTaskHandler_229(g)
    \/ moveTaskHandler_260(g)
    \/ moveTaskHandler_261(g)
    \/ moveTaskHandler_262(g)

\* The steps of main that wait for nothing once it holds the lock: lines
\* 147-169 run to the deferred Unlock, and main goes on to serve.
MainRuns ==
    \/ \E ok \in BOOLEAN : LoadFromFile_Body(ok)
    \/ main_Serve

\* Requests arrive, or do not: goroutine 1 serves the board and the add form,
\* goroutine 2 the moves.
Arrives(g) ==
    \/ g = 1 /\ indexHandler_204(g)
    \/ g = 1 /\ \E t \in Titles, d \in Descriptions : addTaskHandler_226(g, "POST", t, d)
    \/ g = 2 /\ \E i \in FormIds, s \in MoveStatuses : moveTaskHandler_252(g, "POST", i, s)

LiveNext ==
    \/ LoadFromFile_Lock
    \/ MainRuns
    \/ \E g \in G : Arrives(g)
    \/ \E g \in G : Acquires(g)
    \/ \E g \in G : Runs(g)
    \/ Restart

\* A runnable goroutine runs (weak fairness); a goroutine that waits in
\* s.mu.Lock() gets the mutex when it is released again and again (strong
\* fairness: sync.Mutex hands the lock to a waiter that has waited long).
SpecLive ==
    /\ Init
    /\ [][LiveNext]_vars
    /\ WF_vars(MainRuns)
    /\ \A g \in G : WF_vars(Runs(g))
    /\ \A g \in G : SF_vars(Acquires(g))

\* ================================================================ claims
\* The AddTask calls that hold an id they have not returned yet.
AddHeld == {h \in G : call[h].op = "AddTask"
                       /\ pc[h] \in {"saveToFile128", "saveToFile137", "unlock", "return"}}

HeldIds == {out[h].id : h \in AddHeld}

\* What LoadFromFile makes of a file, loaded into a fresh store.
Decoded(f) == LoadResult(f, TRUE, EmptyMap, 1)

InMemory == [err |-> "nil", tasks |-> tasks, nextID |-> nextID]

\* C1, as stated: on a store that starts empty with next-id 1, the k-th
\* AddTask to complete (to return to its caller) returns id k (checked on
\* runs with no I/O error).
C1_KthCompletedReturnsK ==
    (startEmpty /\ failed = 0) => \A k \in DOMAIN returned : returned[k] = k

\* C1, amended: on a store that starts empty with next-id 1, ids are handed
\* out in the order in which the AddTask calls take the lock: the ids returned
\* so far are pairwise distinct, distinct from the ids held by calls that have
\* not returned yet, and together with those they are exactly 1..n, n the
\* number of AddTask calls that have taken effect.
C1_IdsInLockOrder ==
    startEmpty =>
        /\ \A i, j \in DOMAIN returned : returned[i] = returned[j] => i = j
        /\ \A h1, h2 \in AddHeld : out[h1].id = out[h2].id => h1 = h2
        /\ Range(returned) \cap HeldIds = {}
        /\ Range(returned) \cup HeldIds = 1..(Len(returned) + Cardinality(AddHeld))

\* Two concurrent AddTask calls returned in the order opposite to their ids.
C1_Witness == startEmpty /\ returned = <<2, 1>>

\* C3, as stated: after a stop at any point and a restart, with no I/O error,
\* the store LoadFromFile leaves holds every task whose AddTask had returned,
\* with the status of its last MoveTask (checked when no MoveTask of the task
\* was in flight at the stop), and nextID is greater than their ids.
C3_TasksSurviveRestart ==
    (pc[0] = "main183" /\ failed = 0) =>
        \A id \in DOMAIN acked :
            /\ id \in DOMAIN tasks
            /\ nextID > id
            /\ acked[id].exact => tasks[id].Status = acked[id].status

\* C5, as stated: when no goroutine holds the lock, a mutation has returned
\* and no I/O call has failed, the file decodes to exactly the store in memory.
C5_FileMatchesMemory ==
    (Serving /\ mu = {} /\ mutated /\ failed = 0) => Decoded(file) = InMemory

\* The same for a store whose strings are valid UTF-8.
ValidString(str) == \A i \in DOMAIN str : str[i] # "0xFF"

ValidStore ==
    \A id \in DOMAIN tasks : /\ ValidString(tasks[id].Title)
                             /\ ValidString(tasks[id].Description)
                             /\ ValidString(tasks[id].Status)

FileMatchesValidMemory ==
    (Serving /\ mu = {} /\ mutated /\ failed = 0 /\ ValidStore) => Decoded(file) = InMemory

\* A goroutine is in a MoveTask that did not find its id.
NotFoundPath(g) ==
    /\ call[g].op = "MoveTask"
    /\ \/ pc[g] = "MoveTask92" /\ call[g].id \notin DOMAIN tasks
       \/ pc[g] \in {"unlock", "return"} /\ ~out[g].ok

\* C6: MoveTask with an id that is not in the store returns (nil, false), and
\* no step of it changes the map, a task, nextID or the file (it does not save).
C6_MoveNotFoundChangesNothing ==
    [][\A g \in G :
          (NotFoundPath(g) /\ pc'[g] # pc[g] /\ Serving') =>
              /\ UNCHANGED <<tasks, nextID, file>>
              /\ pc[g] = "MoveTask92" => (out'[g] = NoOut /\ pc'[g] = "unlock")]_vars

\* A MoveTask of an unknown id has returned not-found on a store that holds a task.
C6_Witness ==
    \E g \in G : call[g].op = "MoveTask" /\ pc[g] = "return" /\ ~out[g].ok /\ tasks # EmptyMap

Partitions(m, o1, o2, o3) ==
    LET todo  == TasksWithStatus(m, Todo, o1)
        doing == TasksWithStatus(m, Doing, o2)
        done  == TasksWithStatus(m, Done, o3)
    IN  /\ Range(todo) \cap Range(doing) = {}
        /\ Range(todo) \cap Range(done) = {}
        /\ Range(doing) \cap Range(done) = {}
        /\ Range(todo) \cup Range(doing) \cup Range(done) = DOMAIN m
        /\ Len(todo) + Len(doing) + Len(done) = Cardinality(DOMAIN m)
        /\ \A i \in DOMAIN todo : m[todo[i]].Status = Todo
        /\ \A i \in DOMAIN doing : m[doing[i]].Status = Doing
        /\ \A i \in DOMAIN done : m[done[i]].Status = Done

\* C8: in a store where every status is one of todo, doing, done, the results
\* of GetTasksByStatus for the three are pairwise disjoint, hold each task once,
\* in the result for its status, and together hold every task.
C8_StatusPartition ==
    (\A id \in DOMAIN tasks : tasks[id].Status \in Canonical) =>
        \A o1, o2, o3 \in Perms(DOMAIN tasks) : Partitions(tasks, o1, o2, o3)

\* GetTasksByStatus has a non-empty result on a store of two tasks in two columns.
C8_Witness ==
    /\ DOMAIN tasks = {1, 2}
    /\ tasks[1].Status \in Canonical /\ tasks[2].Status \in Canonical
    /\ tasks[1].Status # tasks[2].Status
    /\ \E g \in G : call[g].op = "GetTasksByStatus" /\ pc[g] = "unlock" /\ out[g].list # << >>

\* C9: LoadFromFile with no file returns nil and leaves the store empty with
\* nextID 1, and the first AddTask on a store that started so is given id 1.
C9_LoadNoFile ==
    /\ []((pc[0] = "main183" /\ file.state = "absent") =>
             (out[0].ok /\ tasks = EmptyMap /\ nextID = 1 /\ startEmpty))
    /\ [][\A g \in G :
             (startEmpty /\ tasks = EmptyMap /\ pc[g] = "AddTask53" /\ pc'[g] # pc[g] /\ Serving') =>
                 out'[g].id = 1]_vars

\* The first AddTask after a start with no file holds id 1, before any save.
C9_Witness ==
    /\ startEmpty /\ file.state = "absent"
    /\ \E g \in G : call[g].op = "AddTask" /\ pc[g] = "saveToFile128" /\ out[g].id = 1

\* C4, as stated: when saveToFile has written the store (the lock is still
\* held, no I/O call has failed), LoadFromFile of the file into a fresh store
\* returns no error and gives exactly the tasks and the nextID that were saved.
C4_RoundTrip ==
    \A g \in G :
        (call[g].op \in Mutators /\ pc[g] = "unlock" /\ out[g].ok /\ failed = 0) =>
            Decoded(file) = InMemory

\* C10: whatever the title, the description and the store, AddTask puts in the
\* map, under the id it returns, a task with that id, the given title and
\* description and the status "todo".
C10_AddTaskIsTodo ==
    [][\A g \in G :
          (pc[g] = "AddTask53" /\ pc'[g] # pc[g] /\ Serving') =>
              /\ out'[g].ok
              /\ out'[g].id = nextID
              /\ out'[g].id \in DOMAIN tasks'
              /\ tasks'[out'[g].id] = [ID          |-> nextID,
                                       Title       |-> call[g].title,
                                       Description |-> call[g].description,
                                       Status      |-> <<"t", "o", "d", "o">>]]_vars

\* AddTask with an empty title and a description that needs an escape has
\* replaced a task of a store that held two tasks, neither of them "todo".
C10_Witness ==
    \E g \in G : /\ call[g].op = "AddTask" /\ pc[g] = "saveToFile128"
                 /\ DOMAIN tasks = {1, 2}
                 /\ tasks[out[g].id].Title = << >>
                 /\ tasks[out[g].id].Description = <<"<">>
                 /\ tasks[out[g].id].Status = Todo
                 /\ \E k \in DOMAIN tasks : tasks[k].Status = <<"0xFF">>

\* Goroutine g is at line 266 with the *Task of id: it reads the fields of the
\* task and does not hold the lock.
UnlockedRead(g, id) ==
    /\ req[g].handler = "moveTaskHandler" /\ req[g].line = 266 /\ pc[g] = "idle"
    /\ req[g].task = id
    /\ g \notin mu

\* Goroutine h is in MoveTask, at the write of the Status of task id (line 96).
StatusWrite(h, id) == pc[h] = "MoveTask92" /\ call[h].id = id /\ id \in DOMAIN tasks

\* C2, as stated: no state is reachable in which one goroutine writes the
\* Status of a task while another reads a field of the same task without
\* holding the lock.
C2_NoUnlockedAccess ==
    \A g, h \in G, id \in 1..MaxTasks : ~(g # h /\ UnlockedRead(g, id) /\ StatusWrite(h, id))

\* C11, as stated: in every reachable state, also right after LoadFromFile of
\* a decodable file, nextID is greater than the id of every task in the store.
C11_NextIDAboveIds == \A id \in DOMAIN tasks : nextID > id

\* C11, its consequence as stated: AddTask never puts its task under an id
\* that a task of the store already has.
C11_AddTaskNeverOverwrites ==
    [][\A g \in G : (pc[g] = "AddTask53" /\ pc'[g] # pc[g] /\ Serving') =>
                        nextID \notin DOMAIN tasks]_vars

\* C12, as stated: after any requests to /add-task and /move-task, the status
\* of every task in the store and in the file is one of todo, doing, done.
C12_StatusIsCanonical ==
    /\ \A id \in DOMAIN tasks : tasks[id].Status \in Canonical
    /\ \A i \in DOMAIN file.tasks : JSONDecodeString(file.tasks[i].Status) \in Canonical

\* C13, as stated: a save that fails leaves the file as the last successful
\* save wrote it: unchanged when MkdirAll or os.Create fails, and, when Encode
\* fails after a mutation of this run has returned (its save was the first
\* I/O call to succeed, so the file held a document), still a document that
\* decodes.
C13_FailedSaveLeavesFile ==
    [][\A g \in G :
          (failed' = failed + 1 /\ pc'[g] = "unlock") =>
              /\ pc[g] = "saveToFile128" => file' = file
              /\ (pc[g] = "saveToFile137" /\ mutated) => file'.state = "json"]_vars

\* C14: when the data file exists and cannot be read (os.Open fails) or
\* decoded (it is empty), LoadFromFile returns an error and leaves the map,
\* nextID and the file as they were, which at startup is the empty map with
\* nextID 1; main then goes on to serve.
C14_FailedLoadChangesNothing ==
    /\ [][(pc[0] = "LoadFromFile147" /\ pc'[0] # pc[0] /\ file.state # "absent"
             /\ (file.state = "empty" \/ failed' = failed + 1)) =>
              /\ ~out'[0].ok
              /\ tasks' = tasks /\ nextID' = nextID /\ file' = file
              /\ tasks' = EmptyMap /\ nextID' = 1]_vars
    /\ []((pc[0] = "main183" /\ ~out[0].ok) =>
              (tasks = EmptyMap /\ nextID = 1 /\ mu = {} /\ ENABLED main_Serve))

\* LoadFromFile has returned an error on the empty file that a stop in the
\* middle of a save left, after tasks had been added.
C14_Witness ==
    pc[0] = "main183" /\ ~out[0].ok /\ file.state = "empty" /\ acked # EmptyMap

\* C15, as stated: while the process serves, no step removes a task from the
\* store or changes the id, the title or the description of a task of the
\* store, and a successful MoveTask(id, s) leaves every other task and nextID
\* as they were.
C15_TasksKeptAndFramed ==
    [][(Serving /\ Serving') =>
          /\ DOMAIN tasks \subseteq DOMAIN tasks'
          /\ \A id \in DOMAIN tasks :
                /\ tasks'[id].ID = tasks[id].ID
                /\ tasks'[id].Title = tasks[id].Title
                /\ tasks'[id].Description = tasks[id].Description
          /\ \A g \in G :
                (pc[g] = "MoveTask92" /\ pc'[g] # pc[g] /\ call[g].id \in DOMAIN tasks) =>
                    /\ nextID' = nextID
                    /\ \A id \in DOMAIN tasks \ {call[g].id} : tasks'[id] = tasks[id]]_vars

\* The lines at which a handler answers with an error: 405 (214, 239), 400
\* (222, 248), 404 (254).
RejectLines == {214, 222, 239, 248, 254}

\* Goroutine g serves a request that is answered with an error: it is at one
\* of these lines, or in the MoveTask of /move-task that does not find its id.
Rejecting(g) ==
    \/ req[g].line \in RejectLines
    \/ req[g].handler = "moveTaskHandler" /\ req[g].line = 253 /\ NotFoundPath(g)

\* C16: no task of the store, and no AddTask call in progress, has an empty
\* title; a request takes an error line without any store call (lines 214,
\* 222, 239, 248) or from a MoveTask that returned not-found (line 254); and
\* no step of a request that is answered with an error changes the map, a
\* task, nextID or the file.
C16_RejectedRequestsChangeNothing ==
    /\ [](/\ \A id \in DOMAIN tasks : tasks[id].Title # << >>
          /\ \A g \in G : call[g].op = "AddTask" /\ pc[g] = "AddTask53" => call[g].title # << >>)
    /\ [][\A g \in G :
             /\ (req[g] = NoReq /\ req'[g].line \in RejectLines) =>
                   (req'[g].line # 254 /\ UNCHANGED <<tasks, nextID, file, mu, pc, call, out>>)
             /\ (req[g].line = 253 /\ pc[g] = "return" /\ req'[g] # req[g]) =>
                   (req'[g].line = 254  <=> ~out[g].ok)
             /\ ((Rejecting(g) \/ Rejecting(g)') /\ (req'[g] # req[g] \/ pc'[g] # pc[g])) =>
                   UNCHANGED <<tasks, nextID, file>>]_vars

\* A POST to /add-task with an empty title is at its 400 while the store holds
\* a task and the other goroutine is inside a store call.
C16_Witness ==
    \E g \in G : /\ req[g].handler = "addTaskHandler" /\ req[g].line = 222
                 /\ tasks # EmptyMap
                 /\ mu # {}

\* Goroutine g has the three lists of a full-board render (lines 208, 264).
Rendered(g) ==
    /\ req[g].handler \in {"indexHandler", "moveTaskHandler"}
    /\ Len(req[g].data) = 3

\* How many times the three lists of g show task id.
Shown(g, id) ==
    Cardinality({p \in (1..3) \X (1..MaxTasks) :
                    /\ p[2] \in DOMAIN req[g].data[p[1]]
                    /\ req[g].data[p[1]][p[2]] = id})

Column(status) == CASE status = Todo -> 1 [] status = Doing -> 2 [] status = Done -> 3

\* C17, as stated: the three lists of a render together show every task that
\* was in the store from the first read of the render on exactly once.
C17_RenderIsSnapshot ==
    \A g \in G : Rendered(g) => \A id \in DOMAIN req[g].snap : Shown(g, id) = 1

\* C17, amended: each list is read under the lock in a call of its own, so the
\* three lists together show exactly once, in the column of its status, every
\* task that was in the store at the first read and had the same status at
\* each of the three reads (so every task that no request moved during the
\* render), and no list shows a task twice.
C17_RenderShowsUnmovedOnce ==
    \A g \in G : Rendered(g) =>
        /\ \A id \in req[g].same :
              /\ Shown(g, id) = 1
              /\ id \in Range(req[g].data[Column(req[g].snap[id])])
        /\ \A i \in 1..3 : \A j, k \in DOMAIN req[g].data[i] :
              req[g].data[i][j] = req[g].data[i][k] => j = k

\* A render during which one task was moved shows that task in two columns and
\* the task that was not moved once.
C17_Witness ==
    \E g \in G : /\ Rendered(g)
                 /\ \E id \in DOMAIN req[g].snap \ req[g].same : Shown(g, id) = 2
                 /\ \E id \in req[g].same : Shown(g, id) = 1

\* The positions at which a goroutine is between s.mu.Lock() and the deferred
\* s.mu.Unlock() of a store method.
Locked ==
    {"AddTask53", "GetTask69", "GetTasksByStatus78", "MoveTask92",
     "saveToFile128", "saveToFile137", "unlock", "LoadFromFile147"}

\* C18: at most one goroutine holds the lock, and a goroutine holds it exactly
\* while it is inside a store method (so every path, MoveTask not-found, a
\* failed save and a failed load included, has released it when the method
\* returns); no step of saveToFile touches the lock; and when goroutines are
\* scheduled fairly, every lock that is held is released and every request
\* that a handler has begun to serve comes to its end.
C18_LockReleasedRequestsReturn ==
    /\ [](/\ Cardinality(mu) <= 1
          /\ \A p \in Procs : p \in mu <=> pc[p] \in Locked)
    /\ [][\A g \in G : (pc[g] \in {"saveToFile128", "saveToFile137"} /\ pc'[g] # pc[g]) =>
                          (mu = {g} /\ mu' = mu)]_vars
    /\ \A p \in Procs : (p \in mu) ~> (p \notin mu)
    /\ \A g \in G : (req[g].handler # "none") ~> (req[g].handler = "none")

\* A handler waits for the lock for its next read while the other goroutine
\* holds it in a MoveTask that did not find its id, after a save that failed.
C18_Witness ==
    \E g, h \in G :
        /\ req[g].line \in {205, 206, 229, 260, 261, 262} /\ pc[g] = "idle"
        /\ mu = {h} /\ NotFoundPath(h)
        /\ failed > 0

====
